---- MODULE Spec2Model ----
(***************************************************************************)
(* Time-bucketed span metrics of app-server/src/ch/spans.rs.               *)
(*                                                                         *)
(* The store is the ClickHouse table "spans"; every series operation sends *)
(* one SQL query (a per-trace CTE, a WHERE filter, GROUP BY time, ORDER BY *)
(* time WITH FILL FROM .. TO .. STEP ..) and drains the cursor row by row. *)
(* The query text is modelled by what ClickHouse computes for it.          *)
(*                                                                         *)
(* Instants are whole seconds since the epoch (the resolution of the       *)
(* DateTime bucket column and of fromUnixTimestamp).  An f64 is modelled   *)
(* as an exact decimal number [m, e] standing for m * 10^e, m >= 0.        *)
(***************************************************************************)
EXTENDS Integers, Sequences, FiniteSets

VARIABLES
    spans,   \* rows of the table "spans"
    now,     \* the store's clock, NOW()
    pc,      \* "idle": no call in progress; "done": a call has returned
    req,     \* the arguments of the call that returned last
    ret,     \* what that call returned
    failAt   \* where the backing store failed during that call (NoFail: nowhere)

vars == <<spans, now, pc, req, ret, failAt>>

----------------------------------------------------------------------------
\* Bounds of the model

\* at most this many rows in the table
MaxSpans == 3

\* past_hours ranges over -1 .. MaxPastHours
MaxPastHours == 1

\* the store may fail when the query is issued (0) or at the k-th
\* cursor.next(), k in 1 .. MaxFailPoint
MaxFailPoint == 2

NoFail == 0 - 1

----------------------------------------------------------------------------
\* GroupByInterval (modifiers.rs) and the ClickHouse functions it names

SecondsPerMinute == 60
SecondsPerHour == 3600
SecondsPerDay == 86400

GroupByInterval == {"Minute", "Hour", "Day"}

\* to_ch_step: toIntervalMinute(1) | toIntervalHour(1) | toIntervalDay(1)
to_ch_step(i) ==
    CASE i = "Minute" -> SecondsPerMinute
      [] i = "Hour"   -> SecondsPerHour
      [] i = "Day"    -> SecondsPerDay

\* to_interval: 1 MINUTE | 1 HOUR | 1 DAY, as added to a DateTime
to_interval(i) == to_ch_step(i)

\* to_ch_truncate_time: toStartOfMinute | toStartOfHour | toStartOfDay (UTC)
to_ch_truncate_time(i, t) == (t \div to_ch_step(i)) * to_ch_step(i)

\* Aggregation::to_ch_agg_function, two of its reducers
Aggregations == {"SUM", "MAX"}

----------------------------------------------------------------------------
\* f64 as an exact decimal: [m |-> mantissa, e |-> exponent], m >= 0

RECURSIVE Pow10(_)
Pow10(k) == IF k <= 0 THEN 1 ELSE 10 * Pow10(k - 1)

RECURSIVE Digits(_)
Digits(n) == IF n < 10 THEN 1 ELSE 1 + Digits(n \div 10)

FZero == [m |-> 0, e |-> 0]

RECURSIVE FNorm(_)
FNorm(f) ==
    IF f.m = 0 THEN FZero
    ELSE IF f.m % 10 = 0 THEN FNorm([m |-> f.m \div 10, e |-> f.e + 1])
    ELSE f

FAdd(a, b) ==
    IF a.m = 0 THEN FNorm(b)
    ELSE IF b.m = 0 THEN FNorm(a)
    ELSE LET e == IF a.e < b.e THEN a.e ELSE b.e
         IN  FNorm([m |-> a.m * Pow10(a.e - e) + b.m * Pow10(b.e - e), e |-> e])

FLess(a, b) ==
    IF b.m = 0 THEN FALSE
    ELSE IF a.m = 0 THEN TRUE
    ELSE LET oa == Digits(a.m) + a.e
             ob == Digits(b.m) + b.e
             e  == IF a.e < b.e THEN a.e ELSE b.e
         IN  IF oa # ob THEN oa < ob
             ELSE a.m * Pow10(a.e - e) < b.m * Pow10(b.e - e)

FMax(a, b) == IF FLess(a, b) THEN b ELSE a

\* utils.rs: the threshold of round_small_values_to_zero, 1e-9
Epsilon == [m |-> 1, e |-> -9]

\* utils.rs: if value.abs() < epsilon { 0.0 } else { value }
round_small_values_to_zero(v) == IF FLess(v, Epsilon) THEN FZero ELSE v

----------------------------------------------------------------------------
\* The table "spans": CHSpan rows (the columns the queries read)

Projects == {"P1", "P2"}

F(m, e) == [m |-> m, e |-> e]

CHSpan(id, p, t, s, e, tok, cost) ==
    [span_id |-> id, project_id |-> p, trace_id |-> t, start_time |-> s,
     end_time |-> e, total_tokens |-> tok, total_cost |-> cost]

\* The day the model plays in starts at this instant (00:00:00 UTC of the
\* second day of the epoch)
Base == SecondsPerDay

\* The spans that may be inserted.  Trace A is the two-span trace of the
\* example scenario, B starts 45 s into the same minute and costs less than
\* Epsilon, G starts two hours later, E belongs to another project.
SpanPool ==
    { CHSpan("a1", "P1", "A", Base + 10, Base + 40, 100, F(1, -2)),
      CHSpan("a2", "P1", "A", Base + 20, Base + 60, 50, F(2, -2)),
      CHSpan("b1", "P1", "B", Base + 45, Base + 50, 7, F(5, -10)),
      CHSpan("g1", "P1", "G", Base + 7330, Base + 7340, 2, F(4, -3)),
      CHSpan("e1", "P2", "E", Base + 15, Base + 25, 9, F(3, -3)) }

\* The instants the clock shows: 00:30:00, 01:00:00 and 01:00:30
NowPool == {Base + 1800, Base + 3600, Base + 3630}

\* start_time / end_time arguments of the absolute operations, per interval:
\* on a bucket boundary and half a bucket after one
AbsPool(i) == {Base, Base + to_ch_step(i) \div 2, Base + 2 * to_ch_step(i)}

PastHours == (0 - 1) .. MaxPastHours

FailPoints == {NoFail} \cup (0 .. MaxFailPoint)

----------------------------------------------------------------------------
\* Sets and sequences

SetMin(S) == CHOOSE x \in S : \A y \in S : x <= y

SetMax(S) == CHOOSE x \in S : \A y \in S : y <= x

RECURSIVE SortedSeq(_)
SortedSeq(S) ==
    IF S = {} THEN <<>>
    ELSE LET x == SetMin(S) IN <<x>> \o SortedSeq(S \ {x})

RECURSIVE SumInt(_, _)
SumInt(f, S) ==
    IF S = {} THEN 0
    ELSE LET x == CHOOSE y \in S : TRUE IN f[x] + SumInt(f, S \ {x})

RECURSIVE SumF(_, _)
SumF(f, S) ==
    IF S = {} THEN FZero
    ELSE LET x == CHOOSE y \in S : TRUE IN FAdd(f[x], SumF(f, S \ {x}))

RECURSIVE MaxF(_, _)
MaxF(f, S) ==
    LET x == CHOOSE y \in S : TRUE
    IN  IF S = {x} THEN FNorm(f[x]) ELSE FMax(FNorm(f[x]), MaxF(f, S \ {x}))

----------------------------------------------------------------------------
\* WITH traces AS (SELECT ... FROM spans GROUP BY project_id, trace_id)

Families == {"trace_count", "latency", "token_count", "cost"}

FloatFamilies == {"latency", "cost"}

\* 10^9: toUnixTimestamp64Nano of an instant, and the 1_000_000_000.0 the
\* latency operations divide by
NanosExp == 9

TraceKeys(store) == {<<s.project_id, s.trace_id>> : s \in store}

SpansOf(store, k) == {s \in store : s.project_id = k[1] /\ s.trace_id = k[2]}

\* MIN(start_time)
TraceStart(store, k) == SetMin({s.start_time : s \in SpansOf(store, k)})

\* MAX(end_time)
TraceEnd(store, k) == SetMax({s.end_time : s \in SpansOf(store, k)})

\* {}(MIN(start_time)) as time
TraceTime(store, i, k) == to_ch_truncate_time(i, TraceStart(store, k))

\* the CTE's value column
TraceValue(store, family, k) ==
    LET ss == SpansOf(store, k)
    IN  CASE family = "trace_count" -> 1
          [] family = "token_count" ->
               SumInt([s \in ss |-> s.total_tokens], ss)
          [] family = "cost" ->
               SumF([s \in ss |-> s.total_cost], ss)
          [] family = "latency" ->
               FNorm(F(TraceEnd(store, k) - TraceStart(store, k), NanosExp))

\* COUNT(DISTINCT(trace_id)) or {ch_aggregation}(value) over one group
Aggregate(store, family, agg, ks) ==
    LET v == [k \in ks |-> TraceValue(store, family, k)]
    IN  CASE family = "trace_count" -> Cardinality({k[2] : k \in ks})
          [] family = "token_count" /\ agg = "SUM" -> SumInt(v, ks)
          [] family = "token_count" /\ agg = "MAX" ->
               SetMax({v[k] : k \in ks})
          [] family \in FloatFamilies /\ agg = "SUM" -> SumF(v, ks)
          [] family \in FloatFamilies /\ agg = "MAX" -> MaxF(v, ks)

\* the value WITH FILL gives a row it inserts: the column type's default
FillDefault(family) == IF family \in FloatFamilies THEN FZero ELSE 0

Row(t, v) == [time |-> t, value |-> v]

----------------------------------------------------------------------------
\* ORDER BY time WITH FILL FROM from TO to STEP step (ClickHouse): the rows
\* of the grouped result stay as they are, also those before FROM or at or
\* after TO; a row with the default value is inserted at from, from + step,
\* ... while below TO, wherever the result has no row (at every one of them
\* when the grouped result is empty); after a row of the result at or after
\* FROM, inserting goes on one step after that row.

\* the rows inserted at cur, cur + step, ... below stop
FillRows(cur, stop, step, dflt) ==
    IF cur < stop
    THEN [j \in 1 .. (stop - cur + step - 1) \div step |->
             Row(cur + (j - 1) * step, dflt)]
    ELSE <<>>

RECURSIVE WithFill(_, _, _, _, _)
WithFill(data, cur, to, step, dflt) ==
    IF data = <<>> THEN FillRows(cur, to, step, dflt)
    ELSE LET d    == Head(data)
             stop == IF d.time < to THEN d.time ELSE to
             nxt  == IF d.time < cur THEN cur
                     ELSE IF d.time < to THEN d.time + step ELSE to
         IN  FillRows(cur, stop, step, dflt) \o <<d>>
               \o WithFill(Tail(data), nxt, to, step, dflt)

\* the WHERE clause without its project_id condition
SelectedAnyProject(store, i, p, lo, hasHi, hi) ==
    {k \in TraceKeys(store) :
        /\ TraceTime(store, i, k) >= lo
        /\ (hasHi => TraceTime(store, i, k) <= hi)}

\* SELECT time, agg(value) FROM traces WHERE project_id = p AND time >= lo
\* [AND time <= hi] GROUP BY time ORDER BY time
Selected(store, i, p, lo, hasHi, hi) ==
    {k \in TraceKeys(store) :
        /\ k[1] = p
        /\ TraceTime(store, i, k) >= lo
        /\ (hasHi => TraceTime(store, i, k) <= hi)}

GroupedRows(store, family, agg, i, ks) ==
    LET ts == SortedSeq({TraceTime(store, i, k) : k \in ks})
    IN  [j \in 1 .. Len(ts) |->
            Row(ts[j], Aggregate(store, family, agg,
                                 {k \in ks : TraceTime(store, i, k) = ts[j]}))]

\* What the store answers: the exception "WITH FILL TO value cannot be less
\* than FROM value" when to < from, the filled rows otherwise
StoreAnswer(store, family, agg, i, ks, from, to) ==
    IF to < from
    THEN [rejected |-> TRUE, rows |-> <<>>]
    ELSE [rejected |-> FALSE,
          rows |-> WithFill(GroupedRows(store, family, agg, i, ks), from, to,
                            to_ch_step(i), FillDefault(family))]

\* the bounds and the filter of the *_relative queries
RelativeLo(clock, past_hours) == clock - past_hours * SecondsPerHour

RelativeFrom(clock, i, past_hours) ==
    to_ch_truncate_time(i, clock - past_hours * SecondsPerHour + to_interval(i))

RelativeTo(clock, i) == to_ch_truncate_time(i, clock + to_interval(i))

RelativeQuery(store, clock, family, agg, i, p, past_hours) ==
    StoreAnswer(store, family, agg, i,
                Selected(store, i, p, RelativeLo(clock, past_hours), FALSE, 0),
                RelativeFrom(clock, i, past_hours), RelativeTo(clock, i))

\* the bounds and the filter of the *_absolute queries
AbsoluteFrom(i, start_time) == to_ch_truncate_time(i, start_time)

AbsoluteTo(i, end_time) == to_ch_truncate_time(i, end_time)

AbsoluteQuery(store, family, agg, i, p, start_time, end_time) ==
    StoreAnswer(store, family, agg, i,
                Selected(store, i, p, start_time, TRUE, end_time),
                AbsoluteFrom(i, start_time), AbsoluteTo(i, end_time))

----------------------------------------------------------------------------
\* The Rust side of an operation

Ok(rows) == [kind |-> "Ok", rows |-> rows, bounds |-> <<>>, queried |-> TRUE]

Err == [kind |-> "Err", rows |-> <<>>, bounds |-> <<>>, queried |-> TRUE]

NoRet == [kind |-> "None", rows |-> <<>>, bounds |-> <<>>, queried |-> FALSE]

\* the loop ending at a failed cursor.next() with the rows read so far
DrainKeepsRows(cursor, fail) ==
    IF fail \in 1 .. Len(cursor) + 1
    THEN Ok(SubSeq(cursor, 1, fail - 1))
    ELSE Ok(cursor)

\* while let Some(row) = cursor.next().await? { res.push(row); }  Ok(res)
\* cursor.next() is called once for every row and once more, for None;
\* when the call numbered fail fails, `?` returns the error and res is dropped
Drain(cursor, fail) ==
    IF fail \in 1 .. Len(cursor) + 1 THEN Err ELSE Ok(cursor)

\* value.value as f64 / 1_000_000_000.0
NanosToSeconds(v) == IF v.m = 0 THEN FZero ELSE FNorm(F(v.m, v.e - NanosExp))

\* fetch()?, then the loop over the cursor: the error of the store when the
\* query cannot be issued or is refused, the loop's result otherwise
Collect(answer, fail) ==
    IF fail = 0 \/ answer.rejected THEN Err ELSE Drain(answer.rows, fail)

\* the map over res that only the latency operations have: seconds, passed
\* through round_small_values_to_zero
SecondsRounded(r) ==
    IF r.kind = "Ok"
    THEN Ok([j \in 1 .. Len(r.rows) |->
               Row(r.rows[j].time,
                   round_small_values_to_zero(NanosToSeconds(r.rows[j].value)))])
    ELSE r

\* what the operations of a family return for a store answer
Returns(family, answer, fail) ==
    IF family = "latency" THEN SecondsRounded(Collect(answer, fail))
    ELSE Collect(answer, fail)

\* the places where the store can fail while this answer is read
CanFailAt(answer, fail) ==
    \/ fail = NoFail
    \/ fail = 0
    \/ ~answer.rejected /\ 1 <= fail /\ fail <= Len(answer.rows) + 1

NoReq ==
    [op |-> "none", family |-> "none", mode |-> "none", interval |-> "none",
     project |-> "none", agg |-> "none", past_hours |-> 0, start_time |-> 0,
     end_time |-> 0]

RelativeReq(family, agg, i, p, past_hours) ==
    [op |-> "series", family |-> family, mode |-> "relative", interval |-> i,
     project |-> p, agg |-> agg, past_hours |-> past_hours, start_time |-> 0,
     end_time |-> 0]

AbsoluteReq(family, agg, i, p, start_time, end_time) ==
    [op |-> "series", family |-> family, mode |-> "absolute", interval |-> i,
     project |-> p, agg |-> agg, past_hours |-> 0, start_time |-> start_time,
     end_time |-> end_time]

----------------------------------------------------------------------------
\* Operations

\* ch_insert.write(span), ch_insert.end(): the row is in the table (a failed
\* insert leaves the table as it was)
insert_span ==
    \E s \in SpanPool \ spans :
        /\ pc = "idle"
        /\ Cardinality(spans) < MaxSpans
        /\ spans' = spans \cup {s}
        /\ UNCHANGED <<now, pc, req, ret, failAt>>

\* SELECT MIN(start_time), MAX(start_time) FROM spans WHERE project_id = p:
\* an aggregation without GROUP BY answers one row, of default values when
\* no row matches
TimeBoundsRow(store, p) ==
    LET ts == {s.start_time : s \in {x \in store : x.project_id = p}}
    IN  IF ts = {} THEN <<0, 0>> ELSE <<SetMin(ts), SetMax(ts)>>

get_time_bounds ==
    \E p \in Projects, fail \in {NoFail, 0, 1} :
        /\ pc = "idle"
        /\ req' = [NoReq EXCEPT !.op = "time_bounds", !.project = p]
        /\ ret' = IF fail = NoFail
                  THEN [kind |-> "Ok", rows |-> <<>>,
                        bounds |-> TimeBoundsRow(spans, p), queried |-> TRUE]
                  ELSE Err
        /\ failAt' = fail
        /\ pc' = "done"
        /\ UNCHANGED <<spans, now>>

get_total_trace_count_metrics_relative ==
    \E i \in GroupByInterval, p \in Projects, h \in PastHours :
        LET answer == RelativeQuery(spans, now, "trace_count", "COUNT_DISTINCT", i, p, h)
        IN  \E fail \in FailPoints :
                /\ pc = "idle"
                /\ CanFailAt(answer, fail)
                /\ req' = RelativeReq("trace_count", "COUNT_DISTINCT", i, p, h)
                /\ ret' = Collect(answer, fail)
                /\ failAt' = fail
                /\ pc' = "done"
                /\ UNCHANGED <<spans, now>>

get_total_trace_count_metrics_absolute ==
    \E i \in GroupByInterval, p \in Projects :
        \E start_time \in AbsPool(i), end_time \in AbsPool(i) :
            LET answer == AbsoluteQuery(spans, "trace_count", "COUNT_DISTINCT", i, p,
                                        start_time, end_time)
            IN  \E fail \in FailPoints :
                    /\ pc = "idle"
                    /\ CanFailAt(answer, fail)
                    /\ req' = AbsoluteReq("trace_count", "COUNT_DISTINCT", i, p,
                                          start_time, end_time)
                    /\ ret' = Collect(answer, fail)
                    /\ failAt' = fail
                    /\ pc' = "done"
                    /\ UNCHANGED <<spans, now>>

get_trace_latency_seconds_metrics_relative ==
    \E i \in GroupByInterval, p \in Projects, h \in PastHours,
       agg \in Aggregations :
        LET answer == RelativeQuery(spans, now, "latency", agg, i, p, h)
        IN  \E fail \in FailPoints :
                /\ pc = "idle"
                /\ CanFailAt(answer, fail)
                /\ req' = RelativeReq("latency", agg, i, p, h)
                /\ ret' = SecondsRounded(Collect(answer, fail))
                /\ failAt' = fail
                /\ pc' = "done"
                /\ UNCHANGED <<spans, now>>

get_trace_latency_seconds_metrics_absolute ==
    \E i \in GroupByInterval, p \in Projects, agg \in Aggregations :
        \E start_time \in AbsPool(i), end_time \in AbsPool(i) :
            LET answer == AbsoluteQuery(spans, "latency", agg, i, p,
                                        start_time, end_time)
            IN  \E fail \in FailPoints :
                    /\ pc = "idle"
                    /\ CanFailAt(answer, fail)
                    /\ req' = AbsoluteReq("latency", agg, i, p,
                                          start_time, end_time)
                    /\ ret' = SecondsRounded(Collect(answer, fail))
                    /\ failAt' = fail
                    /\ pc' = "done"
                    /\ UNCHANGED <<spans, now>>

get_total_token_count_metrics_relative ==
    \E i \in GroupByInterval, p \in Projects, h \in PastHours,
       agg \in Aggregations :
        LET answer == RelativeQuery(spans, now, "token_count", agg, i, p, h)
        IN  \E fail \in FailPoints :
                /\ pc = "idle"
                /\ CanFailAt(answer, fail)
                /\ req' = RelativeReq("token_count", agg, i, p, h)
                /\ ret' = Collect(answer, fail)
                /\ failAt' = fail
                /\ pc' = "done"
                /\ UNCHANGED <<spans, now>>

get_total_token_count_metrics_absolute ==
    \E i \in GroupByInterval, p \in Projects, agg \in Aggregations :
        \E start_time \in AbsPool(i), end_time \in AbsPool(i) :
            LET answer == AbsoluteQuery(spans, "token_count", agg, i, p,
                                        start_time, end_time)
            IN  \E fail \in FailPoints :
                    /\ pc = "idle"
                    /\ CanFailAt(answer, fail)
                    /\ req' = AbsoluteReq("token_count", agg, i, p,
                                          start_time, end_time)
                    /\ ret' = Collect(answer, fail)
                    /\ failAt' = fail
                    /\ pc' = "done"
                    /\ UNCHANGED <<spans, now>>

get_cost_usd_metrics_relative ==
    \E i \in GroupByInterval, p \in Projects, h \in PastHours,
       agg \in Aggregations :
        LET answer == RelativeQuery(spans, now, "cost", agg, i, p, h)
        IN  \E fail \in FailPoints :
                /\ pc = "idle"
                /\ CanFailAt(answer, fail)
                /\ req' = RelativeReq("cost", agg, i, p, h)
                /\ ret' = Collect(answer, fail)
                /\ failAt' = fail
                /\ pc' = "done"
                /\ UNCHANGED <<spans, now>>

get_cost_usd_metrics_absolute ==
    \E i \in GroupByInterval, p \in Projects, agg \in Aggregations :
        \E start_time \in AbsPool(i), end_time \in AbsPool(i) :
            LET answer == AbsoluteQuery(spans, "cost", agg, i, p,
                                        start_time, end_time)
            IN  \E fail \in FailPoints :
                    /\ pc = "idle"
                    /\ CanFailAt(answer, fail)
                    /\ req' = AbsoluteReq("cost", agg, i, p,
                                          start_time, end_time)
                    /\ ret' = Collect(answer, fail)
                    /\ failAt' = fail
                    /\ pc' = "done"
                    /\ UNCHANGED <<spans, now>>

\* time passes at the store
Tick ==
    \E t \in NowPool :
        /\ pc = "idle"
        /\ t > now
        /\ now' = t
        /\ UNCHANGED <<spans, pc, req, ret, failAt>>

\* the caller takes the returned value; operations share no state
Respond ==
    /\ pc = "done"
    /\ pc' = "idle"
    /\ req' = NoReq
    /\ ret' = NoRet
    /\ failAt' = NoFail
    /\ UNCHANGED <<spans, now>>

Init ==
    /\ spans = {}
    /\ now = SetMin(NowPool)
    /\ pc = "idle"
    /\ req = NoReq
    /\ ret = NoRet
    /\ failAt = NoFail

Next ==
    \/ insert_span
    \/ get_time_bounds
    \/ get_total_trace_count_metrics_relative
    \/ get_total_trace_count_metrics_absolute
    \/ get_trace_latency_seconds_metrics_relative
    \/ get_trace_latency_seconds_metrics_absolute
    \/ get_total_token_count_metrics_relative
    \/ get_total_token_count_metrics_absolute
    \/ get_cost_usd_metrics_relative
    \/ get_cost_usd_metrics_absolute
    \/ Tick
    \/ Respond

Spec == Init /\ [][Next]_vars

----------------------------------------------------------------------------
\* Vocabulary of the properties

Returned == pc = "done"

SeriesReturned == pc = "done" /\ req.op = "series"

SeriesOk == SeriesReturned /\ ret.kind = "Ok"

\* start <= end (absolute), past_hours >= 0 (relative)
ValidWindow ==
    /\ req.mode = "absolute" => req.start_time <= req.end_time
    /\ req.mode = "relative" => req.past_hours >= 0

Step == to_ch_step(req.interval)

Truncate(t) == (t \div Step) * Step

\* the bucket range: truncate(start) and truncate(end) of an absolute
\* window, truncate(now - past) + step and truncate(now) + step of a relative
RangeStart ==
    IF req.mode = "absolute" THEN Truncate(req.start_time)
    ELSE Truncate(now - req.past_hours * SecondsPerHour) + Step

RangeEnd ==
    IF req.mode = "absolute" THEN Truncate(req.end_time)
    ELSE Truncate(now) + Step

BucketCount == (RangeEnd - RangeStart + Step - 1) \div Step

Times(rows) == [j \in 1 .. Len(rows) |-> rows[j].time]

IsZero(v) == IF req.family \in FloatFamilies THEN v = FZero ELSE v = 0

\* the traces of the requested project
ProjectTraces == {k \in TraceKeys(spans) : k[1] = req.project}

\* what the operation of req returns over another table, the store
\* answering without a failure
Rerun(store) ==
    IF req.mode = "relative"
    THEN Returns(req.family,
                 RelativeQuery(store, now, req.family, req.agg, req.interval,
                               req.project, req.past_hours), NoFail)
    ELSE Returns(req.family,
                 AbsoluteQuery(store, req.family, req.agg, req.interval,
                               req.project, req.start_time, req.end_time),
                 NoFail)

\* the value a sequence of points has at bucket time t (zero: no point)
ValueAt(rows, t) ==
    IF \E j \in 1 .. Len(rows) : rows[j].time = t
    THEN rows[CHOOSE j \in 1 .. Len(rows) : rows[j].time = t].value
    ELSE FillDefault(req.family)

\* a trace's value: 1, max(end) - min(start) in seconds, sum of tokens,
\* sum of cost
PerTrace(k) ==
    LET ss == SpansOf(spans, k)
    IN  CASE req.family = "trace_count" -> 1
          [] req.family = "token_count" ->
               SumInt([s \in ss |-> s.total_tokens], ss)
          [] req.family = "cost" -> SumF([s \in ss |-> s.total_cost], ss)
          [] req.family = "latency" ->
               FNorm(F(SetMax({s.end_time : s \in ss})
                         - SetMin({s.start_time : s \in ss}), 0))

Plus(a, b) == IF req.family \in FloatFamilies THEN FAdd(a, b) ELSE a + b

----------------------------------------------------------------------------
\* C1: an absolute operation over a valid window returns exactly
\* ceil((truncate(end) - truncate(start)) / step) points, each at a bucket
\* time t with truncate(start) <= t < truncate(end); none at truncate(end).
C1_AbsoluteCountAndRange ==
    (SeriesOk /\ req.mode = "absolute" /\ ValidWindow) =>
        /\ Len(ret.rows) = BucketCount
        /\ \A j \in 1 .. Len(ret.rows) :
              RangeStart <= ret.rows[j].time /\ ret.rows[j].time < RangeEnd

\* C2: the relative operation with past_hours = D at instant T returns the
\* bucket times of the absolute operation with start = T - D and end = T.
C2_RelativeMatchesAbsolute ==
    (SeriesOk /\ req.mode = "relative" /\ ValidWindow) =>
        Times(ret.rows) =
            Times(Returns(req.family,
                          AbsoluteQuery(spans, req.family, req.agg,
                                        req.interval, req.project,
                                        now - req.past_hours * SecondsPerHour,
                                        now), NoFail).rows)

\* C3: a trace whose bucket truncate(min(span.start)) is among the returned
\* points adds its whole value to the point of that bucket and nothing to
\* any other point (count and SUM).
C3_WholeValueAtStartBucket ==
    (SeriesOk /\ ValidWindow /\ req.agg \in {"SUM", "COUNT_DISTINCT"}) =>
        \A k \in ProjectTraces :
            LET b       == Truncate(TraceStart(spans, k))
                without == Rerun(spans \ SpansOf(spans, k)).rows
            IN  (\E j \in 1 .. Len(ret.rows) : ret.rows[j].time = b) =>
                    \A j \in 1 .. Len(ret.rows) :
                        ret.rows[j].value =
                            Plus(ValueAt(without, ret.rows[j].time),
                                 IF ret.rows[j].time = b THEN PerTrace(k)
                                 ELSE FillDefault(req.family))

\* C4: no value v returned by a latency or a cost operation has
\* 0 < |v| < epsilon.
C4_FloatFamiliesStabilized ==
    (SeriesOk /\ req.family \in FloatFamilies) =>
        \A j \in 1 .. Len(ret.rows) :
            ret.rows[j].value.m = 0 \/ ~FLess(ret.rows[j].value, Epsilon)

\* C5: get_time_bounds on a project without spans yields Empty: no error,
\* no default-valued (min, max).
C5_TimeBoundsEmpty ==
    (/\ Returned
     /\ req.op = "time_bounds"
     /\ failAt = NoFail
     /\ \A s \in spans : s.project_id # req.project) =>
        ret.kind = "Empty"

\* C6: a series operation with start > end or past_hours < 0 fails with
\* InvalidWindow before any request reaches the backing store.
C6_InvalidWindowRejected ==
    (SeriesReturned /\ ~ValidWindow) =>
        ret.kind = "InvalidWindow" /\ ~ret.queried

\* C7: with no trace of the project in the store, a series operation over a
\* valid window returns one point per bucket boundary of the fill range,
\* each of value zero.
C7_ZeroFilledWhenNoTraces ==
    (SeriesOk /\ ValidWindow /\ ProjectTraces = {}) =>
        /\ Times(ret.rows) =
              [j \in 1 .. BucketCount |-> RangeStart + (j - 1) * Step]
        /\ \A j \in 1 .. Len(ret.rows) : IsZero(ret.rows[j].value)

C7_Witness ==
    /\ SeriesOk /\ ValidWindow /\ ProjectTraces = {}
    /\ spans # {}
    /\ req.family = "latency"
    /\ Len(ret.rows) >= 2

\* C8: when the store fails anywhere during a series operation the operation
\* returns an error and no row; an Ok sequence has every row of the store's
\* answer, the cursor having been read to its end.
C8_NoPartialResult ==
    SeriesReturned =>
        /\ failAt # NoFail => ret.kind = "Err" /\ ret.rows = <<>>
        /\ ret.kind = "Ok" =>
              /\ failAt = NoFail
              /\ Times(ret.rows) = Times(Rerun(spans).rows)

C8_Witness ==
    /\ SeriesReturned
    /\ failAt = 2
    /\ Len(Rerun(spans).rows) >= 2
    /\ ret.kind = "Err"
    /\ ret.rows = <<>>

\* C9: in every returned sequence the bucket times increase by exactly
\* step() from one point to the next.
C9_EvenlySpaced ==
    (SeriesOk /\ ValidWindow) =>
        \A j \in 1 .. Len(ret.rows) - 1 :
            ret.rows[j + 1].time - ret.rows[j].time = Step

\* C10: the value of every returned bucket b in [range_start, range_end) is
\* the aggregation over all traces of the project with
\* truncate(trace.start) = b.
C10_BucketHoldsItsTraces ==
    (SeriesOk /\ ValidWindow) =>
        \A j \in 1 .. Len(ret.rows) :
            LET b  == ret.rows[j].time
                ks == {k \in ProjectTraces : Truncate(TraceStart(spans, k)) = b}
            IN  (RangeStart <= b /\ b < RangeEnd) =>
                    ret.rows[j].value =
                        IF ks = {} THEN FillDefault(req.family)
                        ELSE Returns(req.family,
                                 [rejected |-> FALSE,
                                  rows |-> <<Row(b, Aggregate(spans, req.family,
                                                              req.agg, ks))>>],
                                 NoFail).rows[1].value

====
